---- MODULE Spec2Model ----
(***************************************************************************)
(* Inventory / sale transaction model of src/main.py: the two SQLite       *)
(* tables (products, sales), the AUTOINCREMENT bookkeeping table           *)
(* sqlite_sequence, and the module-level database functions add_product,   *)
(* delete_product, update_product_quantity, process_sale, get_all_products *)
(* and get_all_sales.  Every function opens its own connection and runs    *)
(* one transaction; the program is single-threaded, so one action is one   *)
(* whole call.                                                             *)
(*                                                                         *)
(* Prices are REAL in the schema; the model counts them in whole units, on *)
(* which price * quantity_sold is exact.                                   *)
(***************************************************************************)
EXTENDS Integers, Sequences, FiniteSets

VARIABLES
    products,         \* table products: id -> [name, price, quantity]
    sales,            \* table sales, in rowid order: rows [id, product_id, quantity_sold, total_price, date]
    sqlite_sequence,  \* AUTOINCREMENT high-water marks of both tables
    last              \* the last call: its name, arguments and the (success, message) it returned

vars == <<products, sales, sqlite_sequence, last>>

----------------------------------------------------------------------------
(* Bounds of the model and the inputs the calls are given *)

MaxProducts == 2      \* no product is inserted once this many ids were handed out
MaxSales == 2         \* no sale row is inserted once this many exist

Names == {"Pen", "Ink"}
Prices == {2, 3}
AddQuantities == {2}        \* the form passes add_product a quantity > 0
Quantities == {-1, 0}       \* update_product_quantity takes any integer
SaleQuantities == {1, 2}    \* the form passes process_sale a quantity > 0
Days == {1}                 \* a run lies within one calendar day
ProductIds == 1 .. MaxProducts

----------------------------------------------------------------------------
(* Messages returned by the database functions *)

MsgAdded == "Product added successfully."
MsgDuplicate == "Product name already exists!"
MsgNotFound == "Product not found."
MsgInsufficient == "Insufficient stock."
MsgSold == "Sale processed! Total: $"
MsgStorage == "disk I/O error"      \* str(e) of an sqlite3 error raised by a statement
MsgNone == ""                       \* functions that return None

Call(op, id, q, name, ok, msg, total) ==
    [op |-> op, id |-> id, q |-> q, name |-> name, ok |-> ok, msg |-> msg, total |-> total]

----------------------------------------------------------------------------
(* The database seen by one connection *)

Db(p, s, seq) == [products |-> p, sales |-> s, sqlite_sequence |-> seq]

Committed == Db(products, sales, sqlite_sequence)

EmptyTable == [i \in {} |-> 0]

\* Max of a finite set of naturals, 0 when empty
Max(S) == IF S = {} THEN 0 ELSE CHOOSE m \in S : \A x \in S : x <= m

Min(S) == CHOOSE m \in S : \A x \in S : m <= x

\* id INTEGER PRIMARY KEY without AUTOINCREMENT: one more than the largest
\* rowid now in the table
NextProductIdNoAutoincrement(db) == Max(DOMAIN db.products) + 1

\* id INTEGER PRIMARY KEY AUTOINCREMENT: one more than the largest rowid the
\* table ever held, which sqlite_sequence remembers across deletes
NextProductId(db) == Max(DOMAIN db.products \cup {db.sqlite_sequence.products}) + 1

NextSaleId(db) ==
    Max({db.sales[i].id : i \in 1 .. Len(db.sales)} \cup {db.sqlite_sequence.sales}) + 1

\* name TEXT NOT NULL, the UNIQUE constraint left out
NameTakenNoUnique(db, name) == FALSE

\* name TEXT NOT NULL UNIQUE
NameTaken(db, name) == \E i \in DOMAIN db.products : db.products[i].name = name

\* INSERT INTO products (name, price, quantity) VALUES (?, ?, ?)
InsertProduct(db, name, price, quantity) ==
    LET id == NextProductId(db) IN
    Db([i \in DOMAIN db.products \cup {id} |->
            IF i = id THEN [name |-> name, price |-> price, quantity |-> quantity]
                      ELSE db.products[i]],
       db.sales,
       [db.sqlite_sequence EXCEPT !.products = id])

\* SELECT price, quantity FROM products, the WHERE clause left out
SelectProductNoWhere(db, product_id) == DOMAIN db.products

\* SELECT price, quantity FROM products WHERE id = ?: the rowids that match
SelectProduct(db, product_id) == {i \in DOMAIN db.products : i = product_id}

\* if current_quantity + 1 < quantity_sold: the stock check off by one
InsufficientStockOffByOne(current_quantity, quantity_sold) ==
    current_quantity + 1 < quantity_sold

\* if current_quantity < quantity_sold
InsufficientStock(current_quantity, quantity_sold) == current_quantity < quantity_sold

\* DELETE FROM products WHERE id <= ?
DeleteProductUpTo(db, product_id) ==
    Db([i \in {j \in DOMAIN db.products : j > product_id} |-> db.products[i]],
       db.sales, db.sqlite_sequence)

\* DELETE FROM products WHERE id = ?, with ON DELETE CASCADE on sales.product_id
DeleteProductCascade(db, product_id) ==
    Db([i \in DOMAIN db.products \ {product_id} |-> db.products[i]],
       SelectSeq(db.sales, LAMBDA r : r.product_id # product_id),
       db.sqlite_sequence)

\* DELETE FROM products WHERE id = ?
DeleteProduct(db, product_id) ==
    Db([i \in DOMAIN db.products \ {product_id} |-> db.products[i]],
       db.sales, db.sqlite_sequence)

\* UPDATE products SET quantity = ? WHERE id = ?
SetQuantity(db, product_id, new_quantity) ==
    Db([i \in DOMAIN db.products |->
            IF i = product_id THEN [db.products[i] EXCEPT !.quantity = new_quantity]
                              ELSE db.products[i]],
       db.sales, db.sqlite_sequence)

\* UPDATE products SET quantity = ? WHERE id = ?: the sold quantity written
\* over the stock instead of taken off it
DecrementQuantityOverwrite(db, product_id, quantity_sold) ==
    Db([i \in DOMAIN db.products |->
            IF i = product_id THEN [db.products[i] EXCEPT !.quantity = quantity_sold]
                              ELSE db.products[i]],
       db.sales, db.sqlite_sequence)

\* UPDATE products SET quantity = quantity - ? WHERE id = ?
DecrementQuantity(db, product_id, quantity_sold) ==
    Db([i \in DOMAIN db.products |->
            IF i = product_id
            THEN [db.products[i] EXCEPT !.quantity = db.products[i].quantity - quantity_sold]
            ELSE db.products[i]],
       db.sales, db.sqlite_sequence)

\* INSERT INTO sales (product_id, quantity_sold, total_price, date) VALUES (?, ?, ?, DATE("now"))
InsertSale(db, product_id, quantity_sold, total_price, date) ==
    LET id == NextSaleId(db) IN
    Db(db.products,
       Append(db.sales, [id |-> id, product_id |-> product_id,
                         quantity_sold |-> quantity_sold,
                         total_price |-> total_price, date |-> date]),
       [db.sqlite_sequence EXCEPT !.sales = id])

\* A connection in autocommit mode: every statement that ran stays
RollbackAutocommit(tx, committed) == tx

\* Leaving "with sqlite3.connect(DB_NAME) as conn" by an exception rolls the
\* connection's open transaction back: the committed database stays
Rollback(tx, committed) == committed

\* conn.commit(), or leaving the with block normally
Commit(tx) == tx

Store(db) ==
    /\ products' = db.products
    /\ sales' = db.sales
    /\ sqlite_sequence' = db.sqlite_sequence

----------------------------------------------------------------------------
(* DATE("now"): the clock does not run backwards, so a sale is dated no     *)
(* earlier than the sale recorded before it                                 *)

LastDate == IF sales = <<>> THEN 0 ELSE sales[Len(sales)].date

Dates == {d \in Days : d >= LastDate}

----------------------------------------------------------------------------
(* The database functions *)

Init ==
    /\ products = EmptyTable
    /\ sales = <<>>
    /\ sqlite_sequence = [products |-> 0, sales |-> 0]
    /\ last = Call("create_database", 0, 0, "", TRUE, MsgNone, 0)

add_product(name, price, quantity) ==
    IF NameTaken(Committed, name)
    THEN /\ Store(Rollback(Committed, Committed))
         /\ last' = Call("add_product", 0, 0, name, FALSE, MsgDuplicate, 0)
    ELSE /\ sqlite_sequence.products < MaxProducts
         /\ Store(Commit(InsertProduct(Committed, name, price, quantity)))
         /\ last' = Call("add_product", 0, 0, name, TRUE, MsgAdded, 0)

delete_product(product_id) ==
    /\ Store(Commit(DeleteProduct(Committed, product_id)))
    /\ last' = Call("delete_product", product_id, 0, "", TRUE, MsgNone, 0)

update_product_quantity(product_id, new_quantity) ==
    /\ Store(Commit(SetQuantity(Committed, product_id, new_quantity)))
    /\ last' = Call("update_product_quantity", product_id, new_quantity, "", TRUE, MsgNone, 0)

\* fault: where the storage engine raises, if anywhere
\*   "none"    no statement fails
\*   "insert"  the UPDATE ran, the INSERT INTO sales raises
\*   "commit"  both statements ran, conn.commit() raises
FaultPoints == {"none", "insert", "commit"}

process_sale(product_id, quantity_sold, date, fault) ==
    LET matches == SelectProduct(Committed, product_id) IN
    IF matches = {}
    THEN /\ Store(Commit(Committed))
         /\ last' = Call("process_sale", product_id, quantity_sold, "", FALSE, MsgNotFound, 0)
    ELSE LET product == products[Min(matches)]      \* cursor.fetchone()
             price == product.price
             current_quantity == product.quantity
             total_price == price * quantity_sold
             tx1 == DecrementQuantity(Committed, product_id, quantity_sold)
             tx2 == InsertSale(tx1, product_id, quantity_sold, total_price, date)
         IN  IF InsufficientStock(current_quantity, quantity_sold)
             THEN /\ Store(Commit(Committed))
                  /\ last' = Call("process_sale", product_id, quantity_sold, "",
                                  FALSE, MsgInsufficient, 0)
             ELSE IF fault = "insert"
             THEN /\ Store(Rollback(tx1, Committed))
                  /\ last' = Call("process_sale", product_id, quantity_sold, "",
                                  FALSE, MsgStorage, 0)
             ELSE IF fault = "commit"
             THEN /\ Store(Rollback(tx2, Committed))
                  /\ last' = Call("process_sale", product_id, quantity_sold, "",
                                  FALSE, MsgStorage, 0)
             ELSE /\ Len(sales) < MaxSales
                  /\ Store(Commit(tx2))
                  /\ last' = Call("process_sale", product_id, quantity_sold, "",
                                  TRUE, MsgSold, total_price)

\* SELECT id, name, price, quantity FROM products
get_all_products ==
    {<<i, products[i].name, products[i].price, products[i].quantity>> : i \in DOMAIN products}

\* FROM sales s JOIN products p ON s.product_id = p.id: the sale rows that
\* have a product row, each with that product's name
JoinProducts(s, p) ==
    LET Joined(r) == r.product_id \in DOMAIN p
        Row(r) == [id |-> r.id, name |-> p[r.product_id].name,
                   quantity_sold |-> r.quantity_sold,
                   total_price |-> r.total_price, date |-> r.date]
        kept == SelectSeq(s, Joined)
    IN  [i \in 1 .. Len(kept) |-> Row(kept[i])]

\* ORDER BY s.date DESC (rows of one date stay in rowid order)
RECURSIVE OrderByDateDesc(_)
OrderByDateDesc(rows) ==
    IF rows = <<>> THEN <<>>
    ELSE LET newest == Max({rows[i].date : i \in 1 .. Len(rows)})
             first == Min({i \in 1 .. Len(rows) : rows[i].date = newest})
         IN  <<rows[first]>> \o
             OrderByDateDesc(SubSeq(rows, 1, first - 1) \o SubSeq(rows, first + 1, Len(rows)))

get_all_sales == OrderByDateDesc(JoinProducts(sales, products))

AddProduct == \E name \in Names, price \in Prices, quantity \in AddQuantities :
                 add_product(name, price, quantity)

DeleteProductCall == \E product_id \in ProductIds : delete_product(product_id)

UpdateQuantity == \E product_id \in ProductIds, new_quantity \in Quantities :
                     update_product_quantity(product_id, new_quantity)

ProcessSale == \E product_id \in ProductIds, quantity_sold \in SaleQuantities, date \in Dates :
                  process_sale(product_id, quantity_sold, date, "none")

ProcessSaleFaulty == \E product_id \in ProductIds, quantity_sold \in SaleQuantities,
                        date \in Dates, fault \in FaultPoints :
                        process_sale(product_id, quantity_sold, date, fault)

Next == AddProduct \/ DeleteProductCall \/ UpdateQuantity \/ ProcessSale

Spec == Init /\ [][Next]_vars

\* The same program on a storage engine whose statements may fail
NextFault == AddProduct \/ DeleteProductCall \/ UpdateQuantity \/ ProcessSaleFaulty

SpecFault == Init /\ [][NextFault]_vars

----------------------------------------------------------------------------
(* Properties *)

IsCall(op) == last'.op = op

\* The product row of id with q taken off its quantity, every other row as it was
Decremented(p, id, q) == [p EXCEPT ![id].quantity = p[id].quantity - q]

\* Every sale row recorded before the step is still there, unchanged, at its place
SalesPrefixKept ==
    /\ Len(sales') >= Len(sales)
    /\ \A i \in 1 .. Len(sales) : sales'[i] = sales[i]

\* The step recorded exactly one sale row: of q units of product id at the
\* price that product had before the step
OneSaleAppended(id, q) ==
    /\ Len(sales') = Len(sales) + 1
    /\ SalesPrefixKept
    /\ sales'[Len(sales')].product_id = id
    /\ sales'[Len(sales')].quantity_sold = q
    /\ sales'[Len(sales')].total_price = products[id].price * q

SoldProductIds == {sales[i].product_id : i \in 1 .. Len(sales)}

\* C1: in every reachable state every product's quantity-on-hand is >= 0.
C1_QuantityNeverNegative == \A i \in DOMAIN products : products[i].quantity >= 0

\* C2: process_sale(id, q) of an existing product with 0 < q <= on-hand
\* succeeds, takes exactly q off that product's quantity, leaves every other
\* product and every earlier sale row as it was, and appends exactly one sale
\* row, of product id, quantity q and total (price before the sale) * q.
C2_SaleWithinStock ==
    [][(/\ IsCall("process_sale")
        /\ last'.id \in DOMAIN products
        /\ 0 < last'.q
        /\ last'.q <= products[last'.id].quantity)
       => /\ last'.ok
          /\ products' = Decremented(products, last'.id, last'.q)
          /\ OneSaleAppended(last'.id, last'.q)]_vars

\* A sale of exactly the stock on hand went through, next to an earlier sale
\* row and a second product.
C2_Witness ==
    /\ last.op = "process_sale"
    /\ last.ok
    /\ last.id \in DOMAIN products
    /\ products[last.id].quantity = 0
    /\ Len(sales) = 2
    /\ Cardinality(DOMAIN products) = 2

\* C3: process_sale(id, q) of an existing product with q above its on-hand
\* quantity fails with 'Insufficient stock.' and leaves the products and
\* sales tables as they were.
C3_InsufficientStock ==
    [][(/\ IsCall("process_sale")
        /\ last'.id \in DOMAIN products
        /\ last'.q > products[last'.id].quantity)
       => /\ ~last'.ok
          /\ last'.msg = MsgInsufficient
          /\ products' = products
          /\ sales' = sales]_vars

\* A sale of more than the (still positive) stock of an existing product was
\* refused.
C3_Witness ==
    /\ last.op = "process_sale"
    /\ last.msg = MsgInsufficient
    /\ last.id \in DOMAIN products
    /\ products[last.id].quantity > 0
    /\ last.q > products[last.id].quantity

\* C4: a process_sale call is all-or-nothing, also when the storage engine
\* raises after the quantity was decremented: either it reports success and
\* the committed state has both the decrement and the sale row, or it reports
\* failure and the committed products and sales tables are as before.
C4_SaleAllOrNothing ==
    [][IsCall("process_sale")
       => \/ /\ last'.ok
             /\ last'.id \in DOMAIN products
             /\ products' = Decremented(products, last'.id, last'.q)
             /\ OneSaleAppended(last'.id, last'.q)
          \/ /\ ~last'.ok
             /\ products' = products
             /\ sales' = sales]_vars

\* A sale that was within stock failed in the storage engine, after earlier
\* sales of the same product.
C4_Witness ==
    /\ last.op = "process_sale"
    /\ ~last.ok
    /\ last.msg = MsgStorage
    /\ last.id \in DOMAIN products
    /\ products[last.id].quantity >= last.q
    /\ last.id \in SoldProductIds

\* C5: process_sale(id, q) of an id with no product row (never created, or
\* deleted) fails with 'Product not found.' and leaves the products and sales
\* tables as they were.
C5_ProductNotFound ==
    [][(IsCall("process_sale") /\ last'.id \notin DOMAIN products)
       => /\ ~last'.ok
          /\ last'.msg = MsgNotFound
          /\ products' = products
          /\ sales' = sales]_vars

\* A sale of a product that was created, sold and deleted was refused while
\* another product is in the catalog.
C5_Witness ==
    /\ last.op = "process_sale"
    /\ last.msg = MsgNotFound
    /\ last.id \notin DOMAIN products
    /\ last.id \in SoldProductIds
    /\ DOMAIN products # {}

\* C6: get_all_sales returns exactly one entry for every recorded sale row,
\* also for the sales of products deleted since.
C6_LedgerListsEverySale ==
    /\ Len(get_all_sales) = Len(sales)
    /\ {get_all_sales[i].id : i \in 1 .. Len(get_all_sales)}
         = {sales[i].id : i \in 1 .. Len(sales)}

\* C7: the sales table is append-only. No step changes or removes a recorded
\* sale row, and a row is recorded with the total (price of its product at
\* that moment) * (quantity sold).
C7_LedgerAppendOnly ==
    [][/\ SalesPrefixKept
       /\ Len(sales') > Len(sales)
            => /\ Len(sales') = Len(sales) + 1
               /\ sales'[Len(sales')].product_id \in DOMAIN products
               /\ sales'[Len(sales')].total_price
                    = products[sales'[Len(sales')].product_id].price
                        * sales'[Len(sales')].quantity_sold]_vars

\* A sale row outlived its product, and a product added later has another
\* price than the one the row was sold at.
C7_Witness ==
    \E i \in 1 .. Len(sales) : \E j \in DOMAIN products :
        /\ sales[i].product_id \notin DOMAIN products
        /\ j > sales[i].product_id
        /\ products[j].price * sales[i].quantity_sold # sales[i].total_price

NoDuplicateNames ==
    \A i, j \in DOMAIN products : products[i].name = products[j].name => i = j

\* C8: add_product with the name of a product in the catalog fails with
\* 'Product name already exists!' and leaves the catalog as it was; no
\* reachable state has two products of one name.
C8_DuplicateName ==
    /\ []NoDuplicateNames
    /\ [][(IsCall("add_product") /\ \E i \in DOMAIN products : products[i].name = last'.name)
          => /\ ~last'.ok
             /\ last'.msg = MsgDuplicate
             /\ products' = products]_vars

\* An add of a name in the catalog was refused.
C8_Witness ==
    /\ last.op = "add_product"
    /\ ~last.ok
    /\ last.msg = MsgDuplicate
    /\ \E i \in DOMAIN products : products[i].name = last.name

\* C9: delete_product(id) succeeds and removes the product row of that id and
\* nothing else: every other product row, every sale row and the id counters
\* stay; with no such row the tables stay as they are, so a second
\* delete_product(id) changes nothing.
C9_DeleteFrame ==
    [][IsCall("delete_product")
       => /\ last'.ok
          /\ DOMAIN products' = DOMAIN products \ {last'.id}
          /\ \A i \in DOMAIN products' : products'[i] = products[i]
          /\ sales' = sales
          /\ sqlite_sequence' = sqlite_sequence
          /\ (last'.id \notin DOMAIN products => products' = products)
          /\ DeleteProduct(Db(products', sales', sqlite_sequence'), last'.id)
               = Db(products', sales', sqlite_sequence')]_vars

\* A product with a recorded sale was deleted while another product stays.
C9_Witness ==
    /\ last.op = "delete_product"
    /\ last.id \notin DOMAIN products
    /\ last.id \in SoldProductIds
    /\ DOMAIN products # {}

\* C10: product ids are never reused. sqlite_sequence.products never
\* decreases and is at least every product id in either table, and a product
\* added gets an id above it: an id different from every id handed out
\* before, so no sale row of a deleted product comes to point at it.
C10_IdsNeverReused ==
    /\ [](\A i \in DOMAIN products \cup SoldProductIds : i <= sqlite_sequence.products)
    /\ [][/\ sqlite_sequence'.products >= sqlite_sequence.products
          /\ (IsCall("add_product") /\ last'.ok)
               => /\ Cardinality(DOMAIN products' \ DOMAIN products) = 1
                  /\ \A n \in DOMAIN products' \ DOMAIN products :
                        /\ n > sqlite_sequence.products
                        /\ n \notin SoldProductIds]_vars

\* A product was added after a product with a recorded sale was deleted.
C10_Witness ==
    /\ last.op = "add_product"
    /\ last.ok
    /\ \E i \in SoldProductIds : i \notin DOMAIN products

====
